---- MODULE Spec2Model ----
(***************************************************************************)
(* Model of tastypie/event_handler.py: the MultiEventHandler composite,    *)
(* its lazy resolution of handler references given as dotted paths, and    *)
(* the fan-out of the 14 event methods to the resolved handlers.           *)
(*                                                                         *)
(* A Python string is a sequence of one-character strings.  A Python value *)
(* is a record [t, v]: t = "str" (v is the text), t = "obj" (v is a        *)
(* one-element sequence holding the object's identity) or t = "none".      *)
(***************************************************************************)
EXTENDS Naturals, Sequences, FiniteSets, TLC

\* ------------------------------------------------------------------ bounds
MaxLen == 5        \* longest reference string given to resolve_class_by_name
MaxHandlers == 3   \* longest reference list given to __init__
MaxCalls == 2      \* calls made on one MultiEventHandler instance

\* ------------------------------------------------------------ Python values
Str(s) == [t |-> "str", v |-> s]
Obj(id) == [t |-> "obj", v |-> <<id>>]
None == [t |-> "none", v |-> <<>>]

Chars == {"m", "H", "."}

Strings == UNION {[1..n -> Chars] : n \in 0..MaxLen}

\* isinstance(cls_path, basestring)
IsBaseString(cls_path) == cls_path.t = "str"

\* '.' in cls_path
HasDot(s) == \E i \in 1..Len(s) : s[i] = "."

\* index of the first '.' of a string that has one
FirstDot(s) == CHOOSE i \in 1..Len(s) : s[i] = "." /\ \A j \in 1..(i - 1) : s[j] # "."

\* cls_path.split('.')
RECURSIVE Split(_)
Split(s) ==
    IF ~HasDot(s) THEN <<s>>
    ELSE <<SubSeq(s, 1, FirstDot(s) - 1)>> \o Split(SubSeq(s, FirstDot(s) + 1, Len(s)))

\* '.'.join(parts)
RECURSIVE Join(_)
Join(parts) ==
    IF Len(parts) = 0 THEN <<>>
    ELSE IF Len(parts) = 1 THEN parts[1]
    ELSE parts[1] \o <<".">> \o Join(Tail(parts))

\* module_bits[:-1]
ButLast(module_bits) == SubSeq(module_bits, 1, Len(module_bits) - 1)

ModulePathAtFirstDot(module_bits) == module_bits[1]
\* '.'.join(module_bits[:-1])
ModulePath(module_bits) == Join(ButLast(module_bits))

\* module_bits[-1]
ClassName(module_bits) == module_bits[Len(module_bits)]

\* -------------------------------------------------------------- environment
\* The importable modules and their namespaces.  Module "m" defines the class
\* H and has the submodule m; module "m.m" defines the class H and binds the
\* name m to None.  Every other path is not importable.
Modules ==
    (<<"m">> :> (<<"H">> :> Obj("clsA") @@ <<"m">> :> Obj("mod_m_m")))
    @@ (<<"m", ".", "m">> :> (<<"H">> :> Obj("clsB") @@ <<"m">> :> None))

\* importlib.import_module(module_path) succeeds
Importable(module_path) == module_path \in DOMAIN Modules

\* getattr(module, class_name, default)
GetAttr(module, class_name, default) ==
    IF class_name \in DOMAIN module THEN module[class_name] ELSE default

\* ------------------------------------------------------------------ errors
NoErr == [kind |-> "none", msg |-> "", a |-> <<>>, b |-> <<>>]

\* the error import_module raises for a module it cannot load
LoadError(module_path) ==
    [kind |-> "LoadError", msg |-> "import_module", a |-> module_path, b |-> <<>>]

\* the ImportError the bare-name branch is written to raise
PythonStylePathError(cls_path) ==
    [kind |-> "ImportError", msg |-> "requires a Python-style path", a |-> cls_path, b |-> <<>>]

\* what the bare-name branch raises: the message is formatted with self.to,
\* an attribute that neither MultiEventHandler nor EventHandler defines
BareNameError(cls_path) ==
    [kind |-> "AttributeError", msg |-> "no attribute", a |-> <<"t", "o">>, b |-> <<>>]

NoClassErrorMemberOnly(module_path, class_name) ==
    [kind |-> "ImportError", msg |-> "does not appear to have a class", a |-> <<>>, b |-> class_name]
\* ImportError("Module '%s' does not appear to have a class called '%s'.")
NoClassError(module_path, class_name) ==
    [kind |-> "ImportError", msg |-> "does not appear to have a class", a |-> module_path, b |-> class_name]

\* -------------------------------------------------- resolve_class_by_name
\* The result of one call: ok (returned or raised), val (the value returned),
\* err (the error raised), loads (the arguments of the import_module calls
\* made, in order) and member (the class_name looked up, when one was).
Returned(val, loads, member) ==
    [ok |-> TRUE, val |-> val, err |-> NoErr, loads |-> loads, member |-> member]
Raised(err, loads, member) ==
    [ok |-> FALSE, val |-> None, err |-> err, loads |-> loads, member |-> member]

resolve_class_by_name(cls_path) ==
    IF ~IsBaseString(cls_path) THEN Returned(cls_path, <<>>, <<>>)
    ELSE IF HasDot(cls_path.v) THEN
        LET module_bits == Split(cls_path.v)
            module_path == ModulePath(module_bits)
            class_name == ClassName(module_bits)
        IN  IF ~Importable(module_path)
            THEN Raised(LoadError(module_path), <<module_path>>, <<class_name>>)
            ELSE LET cls == GetAttr(Modules[module_path], class_name, None)
                 IN  IF cls = None
                     THEN Raised(NoClassError(module_path, class_name),
                                 <<module_path>>, <<class_name>>)
                     ELSE Returned(cls, <<module_path>>, <<class_name>>)
    ELSE Raised(BareNameError(cls_path.v), <<>>, <<>>)

\* ------------------------------------------------------------------- state
VARIABLES
    constructed,      \* the MultiEventHandler instance exists
    event_handlers,   \* self.event_handlers: the stored references
    _event_handlers,  \* self._event_handlers: [isNone, list]
    loadCount,        \* per stored reference, the import_module calls made for it
    cacheWrites,      \* assignments made to _event_handlers by get_event_handlers
    nCalls,           \* calls made on the instance so far
    call,             \* the last call made on the instance and what it did
    lastRet,          \* what the last returning get_event_handlers call returned
    cls_path,         \* argument of the last direct resolve_class_by_name call
    resolved          \* its result

vars == <<constructed, event_handlers, _event_handlers, loadCount, cacheWrites,
          nCalls, call, lastRet, cls_path, resolved>>

compositeVars == <<constructed, event_handlers, _event_handlers, loadCount,
                   cacheWrites, nCalls, call, lastRet>>

NoneCache == [isNone |-> TRUE, list |-> <<>>]
ListCache(list) == [isNone |-> FALSE, list |-> list]

\* the 14 event methods of EventHandler
Points ==
    {"pre_read_list", "post_read_list", "pre_read_detail", "post_read_detail",
     "pre_create_detail", "post_create_detail",
     "pre_update_detail", "post_update_detail",
     "pre_update_list", "post_update_list",
     "pre_delete_list", "post_delete_list",
     "pre_delete_detail", "post_delete_detail"}

\* the references a reference list is built from: a handler object, a path
\* that resolves, a bare name and a path to a member its module does not have
RefPool ==
    {Obj("h1"), Str(<<"m", ".", "H">>), Str(<<"H">>), Str(<<"m", ".", "H", "H">>)}

RefLists == UNION {[1..n -> RefPool] : n \in 0..MaxHandlers}

\* the (object_list, bundle) pairs the resource passes to an event method
Requests ==
    {[object_list |-> <<"o1">>, bundle |-> <<"b1">>],
     [object_list |-> <<"o1", "o2">>, bundle |-> <<"b2">>]}

NoCall ==
    [kind |-> "none", point |-> "", object_list |-> <<>>, bundle |-> <<>>,
     refs |-> <<>>, invoked |-> <<>>, stage |-> "returned", err |-> NoErr,
     cacheBefore |-> NoneCache]

NoRet == [defined |-> FALSE, list |-> <<>>]

\* ------------------------------------------------------------- construction
NewCacheEager(refs) == ListCache([i \in 1..Len(refs) |-> resolve_class_by_name(refs[i]).val])
\* self._event_handlers = None
NewCache(refs) == NoneCache

\* MultiEventHandler.__init__(event_handlers): the state of the new instance
Construct(refs) ==
    /\ constructed = TRUE
    /\ event_handlers = refs
    /\ _event_handlers = NewCache(refs)
    /\ loadCount = [i \in 1..Len(refs) |-> 0]
    /\ call = [NoCall EXCEPT !.kind = "init", !.refs = refs]

\* --------------------------------------------------------- get_event_handlers
NeedsResolutionAlways(cache) == TRUE
\* not self._event_handlers: None and the empty list are both false
NeedsResolution(cache) == cache.isNone \/ cache.list = <<>>

ResolveAllReversed(refs) ==
    [i \in 1..Len(refs) |-> resolve_class_by_name(refs[Len(refs) + 1 - i])]
\* [self.resolve_class_by_name(cls) for cls in self.event_handlers], one
\* result per reference; evaluation stops at the first that raises
ResolveAll(refs) == [i \in 1..Len(refs) |-> resolve_class_by_name(refs[i])]

Min(S) == CHOOSE x \in S : \A y \in S : x <= y

\* The outcome of one get_event_handlers call: ok, ret (the list returned),
\* cache (_event_handlers afterwards), nloads (import_module calls made per
\* reference), wrote (assignments to _event_handlers) and err.
get_event_handlers_partial(cache, refs) ==
    IF NeedsResolution(cache) THEN
        LET rs == ResolveAll(refs)
            failing == {i \in 1..Len(refs) : ~rs[i].ok}
            n == IF failing = {} THEN Len(refs) ELSE Min(failing) - 1
            done == [i \in 1..n |-> rs[i].val]
        IN  [ok |-> failing = {}, ret |-> IF failing = {} THEN done ELSE <<>>,
             cache |-> ListCache(done),
             nloads |-> [i \in 1..Len(refs) |->
                            IF i <= n + 1 THEN Len(rs[i].loads) ELSE 0],
             wrote |-> 1,
             err |-> IF failing = {} THEN NoErr ELSE rs[n + 1].err]
    ELSE [ok |-> TRUE, ret |-> cache.list, cache |-> cache,
          nloads |-> [i \in 1..Len(refs) |-> 0], wrote |-> 0, err |-> NoErr]
get_event_handlers(cache, refs) ==
    IF NeedsResolution(cache) THEN
        LET rs == ResolveAll(refs)
            failing == {i \in 1..Len(refs) : ~rs[i].ok}
        IN  IF failing = {}
            THEN LET list == [i \in 1..Len(refs) |-> rs[i].val]
                 IN  [ok |-> TRUE, ret |-> list, cache |-> ListCache(list),
                      nloads |-> [i \in 1..Len(refs) |-> Len(rs[i].loads)],
                      wrote |-> 1, err |-> NoErr]
            ELSE LET f == Min(failing)
                 IN  [ok |-> FALSE, ret |-> <<>>, cache |-> cache,
                      nloads |-> [i \in 1..Len(refs) |->
                                     IF i <= f THEN Len(rs[i].loads) ELSE 0],
                      wrote |-> 0, err |-> rs[f].err]
    ELSE [ok |-> TRUE, ret |-> cache.list, cache |-> cache,
          nloads |-> [i \in 1..Len(refs) |-> 0], wrote |-> 0, err |-> NoErr]

read_list_handlers(cache, refs) == get_event_handlers(cache, refs)
read_detail_handlers(cache, refs) == get_event_handlers(cache, refs)
create_detail_handlers(cache, refs) == get_event_handlers(cache, refs)
update_detail_handlers(cache, refs) == get_event_handlers(cache, refs)
update_list_handlers(cache, refs) == get_event_handlers(cache, refs)
delete_list_handlers(cache, refs) == get_event_handlers(cache, refs)
delete_detail_handlers(cache, refs) == get_event_handlers(cache, refs)

\* a direct call of get_event_handlers()
GetEventHandlersCall ==
    /\ constructed
    /\ nCalls < MaxCalls
    /\ LET g == get_event_handlers(_event_handlers, event_handlers)
       IN  /\ _event_handlers' = g.cache
           /\ loadCount' = [i \in 1..Len(event_handlers) |-> loadCount[i] + g.nloads[i]]
           /\ cacheWrites' = cacheWrites + g.wrote
           /\ lastRet' = IF g.ok THEN [defined |-> TRUE, list |-> g.ret] ELSE lastRet
           /\ call' = [NoCall EXCEPT !.kind = "get",
                                     !.stage = IF g.ok THEN "returned" ELSE "resolve",
                                     !.err = g.err,
                                     !.cacheBefore = _event_handlers]
    /\ nCalls' = nCalls + 1
    /\ UNCHANGED <<constructed, event_handlers, cls_path, resolved>>

\* ------------------------------------------------------------------ fan-out
\* the error handler h raises from its event method
HandlerError(h, method) ==
    [kind |-> "HandlerError", msg |-> method, a |-> h.v, b |-> <<>>]

\* one invocation handler.method(object_list, bundle) and how it ended
Invocation(h, method, object_list, bundle, raises) ==
    [handler |-> h, method |-> method, object_list |-> object_list,
     bundle |-> bundle,
     raised |-> IF raises THEN HandlerError(h, method) ELSE NoErr]

DispatchReversed(handlers, method, object_list, bundle, raiseAt) ==
    LET n == IF raiseAt = 0 THEN Len(handlers) ELSE raiseAt
        invoked == [i \in 1..n |->
                       Invocation(handlers[Len(handlers) + 1 - i], method,
                                  object_list, bundle, i = raiseAt)]
    IN  [invoked |-> invoked,
         err |-> IF raiseAt = 0 THEN NoErr ELSE invoked[raiseAt].raised]
DispatchIsolated(handlers, method, object_list, bundle, raiseAt) ==
    LET invoked == [i \in 1..Len(handlers) |->
                       Invocation(handlers[i], method, object_list, bundle,
                                  i = raiseAt)]
    IN  [invoked |-> invoked,
         err |-> IF raiseAt = 0 THEN NoErr ELSE invoked[raiseAt].raised]
\* for event_handler in handlers: event_handler.method(object_list, bundle)
\* raiseAt is the position of the first handler that raises (0: none does);
\* nothing catches the error, so the loop ends there and the error leaves
\* the composite's method
Dispatch(handlers, method, object_list, bundle, raiseAt) ==
    LET n == IF raiseAt = 0 THEN Len(handlers) ELSE raiseAt
        invoked == [i \in 1..n |->
                       Invocation(handlers[i], method, object_list, bundle,
                                  i = raiseAt)]
    IN  [invoked |-> invoked,
         err |-> IF raiseAt = 0 THEN NoErr ELSE invoked[raiseAt].raised]

\* The body shared by the 14 event methods of MultiEventHandler: g is the
\* outcome of the method's *_handlers() call, method the handler method the
\* loop body calls.
EventMethod(point, g, method, object_list, bundle, raiseAt) ==
    /\ constructed
    /\ nCalls < MaxCalls
    /\ LET r == g
           d == Dispatch(r.ret, method, object_list, bundle, raiseAt)
       IN  /\ raiseAt \in 0..Len(r.ret)
           /\ call' = [NoCall EXCEPT
                          !.kind = "point", !.point = point,
                          !.object_list = object_list, !.bundle = bundle,
                          !.invoked = IF r.ok THEN d.invoked ELSE <<>>,
                          !.stage = IF ~r.ok THEN "resolve"
                                    ELSE IF raiseAt = 0 THEN "returned"
                                    ELSE "dispatch",
                          !.err = IF r.ok THEN d.err ELSE r.err,
                          !.cacheBefore = _event_handlers]
           /\ _event_handlers' = r.cache
           /\ loadCount' = [i \in 1..Len(event_handlers) |-> loadCount[i] + r.nloads[i]]
           /\ cacheWrites' = cacheWrites + r.wrote
           /\ lastRet' = IF r.ok THEN [defined |-> TRUE, list |-> r.ret] ELSE lastRet
    /\ nCalls' = nCalls + 1
    /\ UNCHANGED <<constructed, event_handlers, cls_path, resolved>>

pre_read_list(object_list, bundle, raiseAt) ==
    EventMethod("pre_read_list", read_list_handlers(_event_handlers, event_handlers),
                "pre_read_list", object_list, bundle, raiseAt)
post_read_list(object_list, bundle, raiseAt) ==
    EventMethod("post_read_list", read_list_handlers(_event_handlers, event_handlers),
                "post_read_list", object_list, bundle, raiseAt)
pre_read_detail(object_list, bundle, raiseAt) ==
    EventMethod("pre_read_detail", read_detail_handlers(_event_handlers, event_handlers),
                "pre_read_detail", object_list, bundle, raiseAt)
post_read_detail(object_list, bundle, raiseAt) ==
    EventMethod("post_read_detail", read_detail_handlers(_event_handlers, event_handlers),
                "post_read_detail", object_list, bundle, raiseAt)
pre_create_detail(object_list, bundle, raiseAt) ==
    EventMethod("pre_create_detail", create_detail_handlers(_event_handlers, event_handlers),
                "pre_create_detail", object_list, bundle, raiseAt)
post_create_detail(object_list, bundle, raiseAt) ==
    EventMethod("post_create_detail", create_detail_handlers(_event_handlers, event_handlers),
                "post_create_detail", object_list, bundle, raiseAt)
pre_update_detail(object_list, bundle, raiseAt) ==
    EventMethod("pre_update_detail", update_detail_handlers(_event_handlers, event_handlers),
                "pre_update_detail", object_list, bundle, raiseAt)
post_update_detail(object_list, bundle, raiseAt) ==
    EventMethod("post_update_detail", update_detail_handlers(_event_handlers, event_handlers),
                "post_update_detail", object_list, bundle, raiseAt)
pre_update_list(object_list, bundle, raiseAt) ==
    EventMethod("pre_update_list", update_list_handlers(_event_handlers, event_handlers),
                "pre_update_list", object_list, bundle, raiseAt)
post_update_list(object_list, bundle, raiseAt) ==
    EventMethod("post_update_list", update_list_handlers(_event_handlers, event_handlers),
                "post_update_list", object_list, bundle, raiseAt)
pre_delete_list(object_list, bundle, raiseAt) ==
    EventMethod("pre_delete_list", delete_list_handlers(_event_handlers, event_handlers),
                "pre_delete_list", object_list, bundle, raiseAt)
post_delete_list(object_list, bundle, raiseAt) ==
    EventMethod("post_delete_list", delete_list_handlers(_event_handlers, event_handlers),
                "post_delete_list", object_list, bundle, raiseAt)
pre_delete_detail(object_list, bundle, raiseAt) ==
    EventMethod("pre_delete_detail", delete_detail_handlers(_event_handlers, event_handlers),
                "pre_delete_detail", object_list, bundle, raiseAt)
post_delete_detail(object_list, bundle, raiseAt) ==
    EventMethod("post_delete_detail", delete_detail_handlers(_event_handlers, event_handlers),
                "post_delete_detail", object_list, bundle, raiseAt)

\* --------------------------------------------------------- specifications
NoResolved == Raised(NoErr, <<>>, <<>>)

Init ==
    /\ \E refs \in RefLists : Construct(refs)
    /\ cacheWrites = 0
    /\ nCalls = 0
    /\ lastRet = NoRet
    /\ cls_path = None
    /\ resolved = NoResolved

Next ==
    \/ GetEventHandlersCall
    \/ \E rq \in Requests, raiseAt \in 0..MaxHandlers :
        \/ pre_read_list(rq.object_list, rq.bundle, raiseAt)
        \/ post_read_list(rq.object_list, rq.bundle, raiseAt)
        \/ pre_read_detail(rq.object_list, rq.bundle, raiseAt)
        \/ post_read_detail(rq.object_list, rq.bundle, raiseAt)
        \/ pre_create_detail(rq.object_list, rq.bundle, raiseAt)
        \/ post_create_detail(rq.object_list, rq.bundle, raiseAt)
        \/ pre_update_detail(rq.object_list, rq.bundle, raiseAt)
        \/ post_update_detail(rq.object_list, rq.bundle, raiseAt)
        \/ pre_update_list(rq.object_list, rq.bundle, raiseAt)
        \/ post_update_list(rq.object_list, rq.bundle, raiseAt)
        \/ pre_delete_list(rq.object_list, rq.bundle, raiseAt)
        \/ post_delete_list(rq.object_list, rq.bundle, raiseAt)
        \/ pre_delete_detail(rq.object_list, rq.bundle, raiseAt)
        \/ post_delete_detail(rq.object_list, rq.bundle, raiseAt)

Spec == Init /\ [][Next]_vars

\* resolve_class_by_name called directly on references of every shape
ResolveRefs == {Str(s) : s \in Strings} \cup {Obj("h1"), Obj("h2")}

ResolveCall(p) ==
    /\ cls_path' = p
    /\ resolved' = resolve_class_by_name(p)
    /\ UNCHANGED compositeVars

NextResolve == \E p \in ResolveRefs : ResolveCall(p)

\* an instance built with no handlers, none of its event methods called
InitResolve ==
    /\ Construct(<<>>)
    /\ cacheWrites = 0
    /\ nCalls = 0
    /\ lastRet = NoRet
    /\ cls_path = None
    /\ resolved = NoResolved

SpecResolve == InitResolve /\ [][NextResolve]_vars

\* ------------------------------------------------------------- properties
\* A dotted path taken apart without split and join: the text before and
\* after its last '.'.
LastDot(s) == CHOOSE i \in 1..Len(s) : s[i] = "." /\ \A j \in (i + 1)..Len(s) : s[j] # "."
BeforeLastDot(s) == SubSeq(s, 1, LastDot(s) - 1)
AfterLastDot(s) == SubSeq(s, LastDot(s) + 1, Len(s))

IsDotted(ref) == ref.t = "str" /\ HasDot(ref.v)

\* the reference names something that can be handed out as a handler
Resolves(ref) ==
    \/ ref.t = "obj"
    \/ /\ IsDotted(ref)
       /\ BeforeLastDot(ref.v) \in DOMAIN Modules
       /\ AfterLastDot(ref.v) \in DOMAIN Modules[BeforeLastDot(ref.v)]
       /\ Modules[BeforeLastDot(ref.v)][AfterLastDot(ref.v)] # None

\* the handler a reference that resolves stands for
Expected(ref) ==
    IF ref.t = "obj" THEN ref
    ELSE Modules[BeforeLastDot(ref.v)][AfterLastDot(ref.v)]

CacheFilled == ~_event_handlers.isNone /\ _event_handlers.list # <<>>

\* C1: an event method of the composite that returns has invoked the method
\* of the same name once on each resolved handler, in the order of the
\* reference list, each time with the object_list and bundle it was given.
OrderedFanOut ==
    (call.kind = "point" /\ call.stage = "returned") =>
        /\ Len(call.invoked) = Len(event_handlers)
        /\ \A i \in 1..Len(event_handlers) :
            call.invoked[i] =
                [handler |-> _event_handlers.list[i], method |-> call.point,
                 object_list |-> call.object_list, bundle |-> call.bundle,
                 raised |-> NoErr]

OrderedFanOutWitness ==
    /\ call.kind = "point"
    /\ call.stage = "returned"
    /\ Len(call.invoked) = 3
    /\ call.invoked[1].handler # call.invoked[2].handler
    /\ call.invoked[2].handler # call.invoked[3].handler

\* C2: when the handler at position k raises, the handlers before k were each
\* invoked once and returned, no handler after k was invoked, and the error
\* that leaves the composite's method is the one the handler raised.
FailFast ==
    (call.kind = "point" /\ call.stage = "dispatch") =>
        LET k == Len(call.invoked)
        IN  /\ k \in 1..Len(event_handlers)
            /\ \A i \in 1..k :
                /\ call.invoked[i].handler = _event_handlers.list[i]
                /\ call.invoked[i].method = call.point
                /\ call.invoked[i].object_list = call.object_list
                /\ call.invoked[i].bundle = call.bundle
                /\ (i < k => call.invoked[i].raised = NoErr)
            /\ call.invoked[k].raised = HandlerError(_event_handlers.list[k], call.point)
            /\ call.err = call.invoked[k].raised

FailFastWitness ==
    /\ call.kind = "point"
    /\ call.stage = "dispatch"
    /\ Len(event_handlers) = 3
    /\ Len(call.invoked) = 2
    /\ call.err.kind = "HandlerError"

\* C3 as claimed: over any sequence of calls the import for a dotted-path
\* reference is performed once and never again.
LoadedOncePerReference ==
    \A i \in 1..Len(event_handlers) : loadCount[i] <= 1

\* C3 as amended: the resolution pass that fills the cache performs exactly
\* one import per string reference and none for the other references, and
\* once the cache holds a non-empty list no call imports or resolves again.
ResolvedNeverReloads ==
    [][/\ CacheFilled => (loadCount' = loadCount /\ _event_handlers' = _event_handlers)
       /\ (_event_handlers.isNone /\ ~_event_handlers'.isNone) =>
            \A i \in 1..Len(event_handlers) :
                loadCount'[i] = loadCount[i] + (IF IsBaseString(event_handlers[i]) THEN 1 ELSE 0)]_vars

ResolvedNeverReloadsWitness ==
    /\ nCalls = 2
    /\ CacheFilled
    /\ call.cacheBefore = _event_handlers
    /\ \E i \in 1..Len(event_handlers) :
        IsBaseString(event_handlers[i]) /\ loadCount[i] = 1

\* C4: resolving a string with no '.' raises the ImportError that asks for a
\* Python-style path, before anything is imported.
BareNameRaisesImportError ==
    (IsBaseString(cls_path) /\ ~HasDot(cls_path.v)) =>
        /\ ~resolved.ok
        /\ resolved.err = PythonStylePathError(cls_path.v)
        /\ resolved.loads = <<>>

\* C5 as claimed: when the module of a dotted path loads, a member it does
\* not have raises the error naming the module and the member, and a member
\* it has is returned.
MemberPresentReturned ==
    (IsDotted(cls_path) /\ BeforeLastDot(cls_path.v) \in DOMAIN Modules) =>
        LET module_path == BeforeLastDot(cls_path.v)
            class_name == AfterLastDot(cls_path.v)
        IN  IF class_name \in DOMAIN Modules[module_path]
            THEN resolved.ok /\ resolved.val = Modules[module_path][class_name]
            ELSE /\ ~resolved.ok
                 /\ resolved.err.kind = "ImportError"
                 /\ resolved.err.a = module_path
                 /\ resolved.err.b = class_name

\* C5 as amended: a member the module has and that is not None is returned;
\* a member the module does not have, or has bound to None, raises the error
\* naming the module and the member.
MemberNotNoneReturned ==
    (IsDotted(cls_path) /\ BeforeLastDot(cls_path.v) \in DOMAIN Modules) =>
        LET module_path == BeforeLastDot(cls_path.v)
            class_name == AfterLastDot(cls_path.v)
        IN  IF Resolves(cls_path)
            THEN /\ resolved.ok
                 /\ resolved.val = Modules[module_path][class_name]
                 /\ resolved.err = NoErr
            ELSE /\ ~resolved.ok
                 /\ resolved.err.kind = "ImportError"
                 /\ resolved.err.a = module_path
                 /\ resolved.err.b = class_name

MemberNotNoneReturnedWitness ==
    /\ cls_path = Str(<<"m", ".", "H", "H">>)
    /\ ~resolved.ok
    /\ resolved.err.a = <<"m">>
    /\ resolved.err.b = <<"H", "H">>

\* C6: for a string with a '.', the module imported is the text before the
\* last '.' and the member looked up is the text after it; a reference that
\* is not a string is returned as it is and nothing is imported.
SplitsAtLastSeparator ==
    /\ IsDotted(cls_path) =>
        /\ resolved.loads = <<BeforeLastDot(cls_path.v)>>
        /\ resolved.member = <<AfterLastDot(cls_path.v)>>
    /\ cls_path.t = "obj" =>
        /\ resolved.ok
        /\ resolved.val = cls_path
        /\ resolved.loads = <<>>

SplitsAtLastSeparatorWitness ==
    /\ cls_path = Str(<<"m", ".", "m", ".", "H">>)
    /\ resolved.ok
    /\ resolved.loads = <<(<<"m", ".", "m">>)>>
    /\ resolved.member = <<(<<"H">>)>>
    /\ resolved.val = Obj("clsB")

\* C7: what get_event_handlers returns has one entry per stored reference,
\* the i-th being the handler the i-th reference stands for, and every later
\* return is the same sequence of the same handlers.
GetEventHandlersIdempotent ==
    [][/\ lastRet'.defined =>
            /\ Len(lastRet'.list) = Len(event_handlers)
            /\ \A i \in 1..Len(event_handlers) :
                lastRet'.list[i] = Expected(event_handlers[i])
       /\ (lastRet.defined /\ lastRet'.defined) => lastRet'.list = lastRet.list]_vars

GetEventHandlersIdempotentWitness ==
    /\ nCalls = 2
    /\ call.kind = "get"
    /\ call.stage = "returned"
    /\ call.cacheBefore = _event_handlers
    /\ lastRet.defined
    /\ Len(lastRet.list) = 3
    /\ lastRet.list[1] # lastRet.list[2]
    /\ \E i \in 1..3 : IsBaseString(event_handlers[i])

\* C8: __init__ stores the references as given, resolves and imports
\* nothing, leaves the cache None and raises nothing whatever the references
\* are; no call made afterwards changes the stored references.
LazyConstruction ==
    /\ [](nCalls = 0 =>
            /\ call.kind = "init"
            /\ call.err = NoErr
            /\ event_handlers = call.refs
            /\ _event_handlers = NoneCache
            /\ cacheWrites = 0
            /\ \A i \in 1..Len(event_handlers) : loadCount[i] = 0)
    /\ [][event_handlers' = event_handlers]_vars

LazyConstructionWitness ==
    /\ nCalls = 1
    /\ \E i \in 1..Len(event_handlers) :
        IsBaseString(event_handlers[i]) /\ ~HasDot(event_handlers[i].v)
    /\ call.stage = "resolve"
    /\ _event_handlers = NoneCache

\* C9: the cache never goes back to None, is not assigned again once it has
\* been assigned, and is assigned by get_event_handlers at most once.
CacheWrittenOnce ==
    [][/\ _event_handlers'.isNone => _event_handlers.isNone
       /\ ~_event_handlers.isNone =>
            (_event_handlers' = _event_handlers /\ cacheWrites' = cacheWrites)
       /\ cacheWrites' <= 1]_vars

\* C10: when a reference of the list does not resolve, an event method
\* invokes no handler, leaves the cache as it was before the call and ends
\* with the error of the first reference that does not resolve.
ResolutionAllOrNothing ==
    (call.kind = "point" /\ \E i \in 1..Len(event_handlers) : ~Resolves(event_handlers[i])) =>
        LET f == Min({i \in 1..Len(event_handlers) : ~Resolves(event_handlers[i])})
        IN  /\ call.stage = "resolve"
            /\ call.invoked = <<>>
            /\ _event_handlers = call.cacheBefore
            /\ _event_handlers = NoneCache
            /\ call.err = resolve_class_by_name(event_handlers[f]).err
            /\ call.err # NoErr

ResolutionAllOrNothingWitness ==
    /\ call.kind = "point"
    /\ call.stage = "resolve"
    /\ Len(event_handlers) >= 2
    /\ event_handlers[1] = Obj("h1")
    /\ ~Resolves(event_handlers[2])
    /\ call.invoked = <<>>

====
